---- MODULE Spec2Model ----
(***************************************************************************)
(* hanetprobe: the probe engine (common.ProbeBase), the publishers         *)
(* (publish.HassEntity, ProbePublisher, CompositeAllConnectedPublisher)    *)
(* and the run-loops and session of probe_app.ProbeService.                *)
(*                                                                         *)
(* asyncio runs every task on one thread, so a step of the model is what   *)
(* one task does between two awaits.  Round-trip times are whole           *)
(* milliseconds; a float the code computes by a division is kept as the    *)
(* exact fraction <<numerator, denominator>>.  An optional value is None   *)
(* (the empty tuple) or Some(v) (the one-element tuple).                   *)
(*                                                                         *)
(* EngineSpec is one engine under calls of probe(); Spec is one run-loop   *)
(* task (ProbeService._run_probe) driving one engine; SvcSpec is a session *)
(* of ProbeService.run with two probes; MainSpec is main() with its signal *)
(* handlers, the configuration file and one session after the other, and   *)
(* MainFairSpec adds fair scheduling to it.  The engines start in the      *)
(* state ProbeBase.__init__ leaves them in.                                *)
(***************************************************************************)
EXTENDS Integers, Sequences, FiniteSets, TLC

VARIABLES
    probes,              \* ProbeService._probes: the names of the engines
    history_len,         \* probe_config.history_len of each probe
    publish_precision,   \* probe_config.publish_precision of each probe
    compound,            \* CompositeAllConnectedPublisher.probes of each group: a list
    _hist,               \* ProbeBase._hist: the circular buffer
    state,               \* ProbeBase.state: the ProbeState
    recorded,            \* every value _add_hist was given, in order (history variable)
    pc,                  \* where each run-loop task is suspended
    must_cancel,         \* run-loop tasks with a cancellation requested, not yet delivered
    published,           \* the state messages the current cycle handed to gather
    failed,              \* the channels of the current cycle whose publish raised
    compound_published,  \* the state each group published last
    publish_tasks,       \* the send_state calls of the groups that the callback of
                         \* the cycle under way gathered: how many for each group
    svc,                 \* where ProbeService.run is suspended
    shutdown_event,      \* the module-level asyncio.Event of probe_app
    main_cancel,         \* a cancellation of the main task requested, not yet delivered
    raised,              \* the exception ProbeService.run is unwinding with
    online,              \* the liveness sensor: its last state, "sending", or
                         \* "cancelled" for a "connected" publish cut short
    pending,             \* the signals whose shutdown task is created and has not run
    sleep_on_error,      \* sleep_on_error of ProbeService._connect_mqtt
    sleep_time,          \* sleep_time of _connect_mqtt: the wait it asked for last
    connect_failures,    \* the attempts of the _connect_mqtt under way that failed
                         \* (history variable)
    config_file,         \* what the configuration file holds
    absorbed,            \* the coroutines of the session that caught a CancelledError
                         \* and returned (history variable)
    will                 \* the last-will message set on ProbeService._mqtt

engine_vars == <<_hist, state, recorded>>
config_vars == <<probes, history_len, publish_precision, compound>>
loop_vars == <<pc, must_cancel, published, failed, compound_published, publish_tasks>>
svc_vars == <<svc, shutdown_event, main_cancel, raised, online>>
connect_vars == <<sleep_on_error, sleep_time, connect_failures>>
main_vars == <<pending, connect_vars, config_file, absorbed, will>>
vars == <<config_vars, engine_vars, loop_vars, svc_vars, main_vars>>

-----------------------------------------------------------------------------
(* Bounds of the model *)

MaxHistoryLen == 3
MaxCount == 4
LoopMaxCount == 4
SvcMaxCount == 2
MaxPublishFailures == 1
SvcHistoryLen == 2
MainMaxCount == 2
MaxConnectFailures == 1
ConnectMaxFailures == 6
GroupMaxCount == 2

Probes == {"p1", "p2"}
RTTValues == {0, 10, 20, 30}
LoopRTTValues == {0, 10}
SvcRTTValues == {10}
Groups == {"c1"}
PrecisionValues == {0, 1}

-----------------------------------------------------------------------------
(* Values *)

None == <<>>
Some(v) == <<v>>
Get(o) == o[1]

Min(a, b) == IF a < b THEN a ELSE b

Range(seq) == {seq[i] : i \in DOMAIN seq}

RECURSIVE Sum(_)
Sum(s) == IF s = <<>> THEN 0 ELSE Head(s) + Sum(Tail(s))

RECURSIVE Pow10(_)
Pow10(n) == IF n = 0 THEN 1 ELSE 10 * Pow10(n - 1)

\* The fractions a/b and c/d are the same number.
RatEq(x, y) == x[1] * y[2] = y[1] * x[2]

\* common.ProbeResult
ProbeResult(rtt, sent, received) ==
    [rtt |-> rtt, bytes_sent |-> sent, bytes_received |-> received]

\* common.ProbeState() as the dataclass defaults build it
ProbeState ==
    [total_count |-> 0, total_lost_count |-> 0, bytes_sent |-> 0,
     bytes_received |-> 0, current |-> None]

-----------------------------------------------------------------------------
(* common.ProbeBase *)

\* ProbeBase.history returning the buffer as stored
history_unrotated(p) == _hist[p]

\* ProbeBase.history: the buffer in chronological order
history(p) ==
    IF Len(_hist[p]) < history_len[p]
    THEN _hist[p]
    ELSE LET pos == state[p].total_count % history_len[p]
         IN  SubSeq(_hist[p], pos + 1, Len(_hist[p])) \o SubSeq(_hist[p], 1, pos)

\* ProbeBase.history_fill_factor, the float 100 * len / history_len
history_fill_factor(p) == <<100 * Len(_hist[p]), history_len[p]>>

\* [i for i in seq if i is not None]
RECURSIVE NotNone(_)
NotNone(s) ==
    IF s = <<>> THEN <<>>
    ELSE IF Head(s) = None THEN NotNone(Tail(s))
         ELSE <<Get(Head(s))>> \o NotNone(Tail(s))

\* statistics.fmean of a non-empty sequence
fmean(values) == <<Sum(values), Len(values)>>

\* get_average dividing by the length of the buffer, lost samples included
average_over_all(hist) ==
    IF NotNone(hist) # <<>> THEN Some(<<Sum(NotNone(hist)), Len(hist)>>) ELSE None

\* The body of ProbeBase.get_average, for the buffer hist
average_of(hist) ==
    LET values == NotNone(hist)
    IN  IF values # <<>> THEN Some(fmean(values)) ELSE None

\* ProbeBase.get_average
get_average(p) == average_of(_hist[p])

\* get_loss_percent from the totals of the ProbeState, not from the buffer
get_loss_percent_of_totals(p) ==
    IF state[p].total_count = 0 THEN None
    ELSE Some(<<100 * state[p].total_lost_count, state[p].total_count>>)

\* ProbeBase.get_loss_percent
get_loss_percent(p) ==
    IF Len(_hist[p]) = 0 THEN None
    ELSE LET loss_count == Cardinality({i \in 1..Len(_hist[p]) : _hist[p][i] = None})
         IN  Some(<<100 * loss_count, Len(_hist[p])>>)

Abs(x) == IF x < 0 THEN -x ELSE x

\* get_jitter reading the buffer as stored, not the history property
get_jitter_of_buffer(p) ==
    LET h == NotNone(_hist[p])
    IN  IF Len(h) <= 1 THEN None
        ELSE LET diffs == [k \in 1..(Len(h) - 1) |-> Abs(h[k + 1] - h[k])]
             IN  Some(fmean(diffs))

\* ProbeBase.get_jitter
get_jitter(p) ==
    LET h == NotNone(history(p))
    IN  IF Len(h) <= 1 THEN None
        ELSE LET diffs == [k \in 1..(Len(h) - 1) |-> Abs(h[k + 1] - h[k])]
             IN  Some(fmean(diffs))

\* ProbeBase._add_hist: the buffer after the write
add_hist_buffer(p, value) ==
    IF Len(_hist[p]) < history_len[p]
    THEN Append(_hist[p], value)
    ELSE [_hist[p] EXCEPT ![(state[p].total_count % history_len[p]) + 1] = value]

\* _add_hist counting an execution only when it has a round-trip time
Record_counting_replies(p, current) ==
    /\ _hist' = [_hist EXCEPT ![p] = add_hist_buffer(p, current.rtt)]
    /\ state' = [state EXCEPT ![p] =
            [total_count |-> @.total_count + (IF current.rtt = None THEN 0 ELSE 1),
             total_lost_count |-> @.total_lost_count
                                    + (IF current.rtt = None THEN 1 ELSE 0),
             bytes_sent |-> @.bytes_sent + current.bytes_sent,
             bytes_received |-> @.bytes_received + current.bytes_received,
             current |-> Some(current)]]
    /\ recorded' = [recorded EXCEPT ![p] = Append(@, current.rtt)]

\* ProbeBase.probe from the return of _probe_action on: `current` is what the
\* driver returned, or ProbeResult(None, 0, 0) after an error of the driver.
Record(p, current) ==
    /\ _hist' = [_hist EXCEPT ![p] = add_hist_buffer(p, current.rtt)]
    /\ state' = [state EXCEPT ![p] =
            [total_count |-> @.total_count + 1,
             total_lost_count |-> @.total_lost_count
                                    + (IF current.rtt = None THEN 1 ELSE 0),
             bytes_sent |-> @.bytes_sent + current.bytes_sent,
             bytes_received |-> @.bytes_received + current.bytes_received,
             current |-> Some(current)]]
    /\ recorded' = [recorded EXCEPT ![p] = Append(@, current.rtt)]

-----------------------------------------------------------------------------
(* publish.py *)

REQUIRED_AVERAGE_HISTORY_PERCENT == 40

HASS_STATE_CONNECTED == "ON"
HASS_STATE_DISCONNECTED == "OFF"
HASS_STATE_UNAVAILABLE == "unavailable"

\* publish.SensorCode
RTT == "rtt"
RTT_AVERAGE == "average rtt"
AVERAGE_LOSS == "average loss"
JITTER == "jitter"
JITTER_GRADE == "jitter grade"
CONNECTIVITY == "connectivity"
BYTES_SENT == "bytes sent"
BYTES_RECEIVED == "bytes received"

SensorCode ==
    {RTT, RTT_AVERAGE, AVERAGE_LOSS, JITTER, JITTER_GRADE, CONNECTIVITY,
     BYTES_SENT, BYTES_RECEIVED}

\* A payload is a text or a number; the number k / scale is kept as the pair.
Text(s) == [text |-> s]
Number(k, scale) == [num |-> k, scale |-> scale]
IsText(payload, s) == "text" \in DOMAIN payload /\ payload.text = s

\* Python's round() of the fraction n / d >= 0: to the nearest integer, a tie
\* to the even one.
round(n, d) ==
    LET q == n \div d
        r == n % d
    IN  IF 2 * r < d THEN q
        ELSE IF 2 * r > d THEN q + 1
        ELSE IF q % 2 = 0 THEN q ELSE q + 1

\* to_hass_numeric of ProbePublisher.send_state; value is None or Some(fraction)
to_hass_numeric(value, precision) ==
    IF value = None THEN Text(HASS_STATE_UNAVAILABLE)
    ELSE IF precision > 0
         THEN Number(round(Get(value)[1] * Pow10(precision), Get(value)[2]),
                     Pow10(precision))
         ELSE Number(round(Get(value)[1], Get(value)[2]), 1)

\* send_state reporting the connectivity of a lost sample as connected
CurrentChannelsAlwaysOn(p) ==
    IF state[p].current # None /\ Get(state[p].current).rtt # None
    THEN (RTT :> to_hass_numeric(Some(<<Get(Get(state[p].current).rtt), 1>>),
                                 publish_precision[p]))
         @@ (CONNECTIVITY :> Text(HASS_STATE_CONNECTED))
    ELSE (CONNECTIVITY :> Text(HASS_STATE_CONNECTED))

\* The branch of ProbePublisher.send_state on the current Measurement
CurrentChannels(p) ==
    IF state[p].current # None /\ Get(state[p].current).rtt # None
    THEN (RTT :> to_hass_numeric(Some(<<Get(Get(state[p].current).rtt), 1>>),
                                 publish_precision[p]))
         @@ (CONNECTIVITY :> Text(HASS_STATE_CONNECTED))
    ELSE (CONNECTIVITY :> Text(HASS_STATE_DISCONNECTED))

\* history_fill_factor >= REQUIRED_AVERAGE_HISTORY_PERCENT
FillGateOpen(p) ==
    history_fill_factor(p)[1] >= REQUIRED_AVERAGE_HISTORY_PERCENT * history_fill_factor(p)[2]

\* 100 * jitter / average raises ZeroDivisionError when the average is 0
JitterGradeRaises(p) ==
    /\ get_jitter(p) # None
    /\ get_average(p) # None
    /\ Get(get_average(p))[1] = 0

\* The branch of ProbePublisher.send_state behind the fill factor gate
StatisticsChannels(p) ==
    IF FillGateOpen(p)
    THEN LET average == get_average(p)
             loss == get_loss_percent(p)
             jitter == get_jitter(p)
             prec == publish_precision[p]
         IN  (RTT_AVERAGE :> to_hass_numeric(average, prec))
             @@ (AVERAGE_LOSS :> to_hass_numeric(loss, prec))
             @@ (JITTER :> to_hass_numeric(jitter, prec))
             @@ (JITTER_GRADE :>
                   IF jitter = None \/ average = None
                   THEN Text(HASS_STATE_UNAVAILABLE)
                   ELSE to_hass_numeric(
                            Some(<<100 * Get(jitter)[1] * Get(average)[2],
                                   Get(jitter)[2] * Get(average)[1]>>), prec))
    ELSE <<>>

\* The byte-count channels of ProbePublisher.send_state
BytesChannels(p) ==
    (BYTES_SENT :> Number(state[p].bytes_sent, 1))
    @@ (BYTES_RECEIVED :> Number(state[p].bytes_received, 1))

\* ProbePublisher.send_state up to its gather: the coroutines in pub_tasks, or
\* the ZeroDivisionError raised while they are collected.
ProbePublisher_send_state(p) ==
    IF FillGateOpen(p) /\ JitterGradeRaises(p)
    THEN [raises |-> TRUE, pub_tasks |-> <<>>]
    ELSE [raises |-> FALSE,
          pub_tasks |-> CurrentChannels(p) @@ StatisticsChannels(p) @@ BytesChannels(p)]

\* send_state with any() in place of all()
CompositeAllConnectedPublisher_send_state_any(c) ==
    LET all_is_down == \E m \in Range(compound[c]) : state[m].current = None
    IN  IF all_is_down THEN HASS_STATE_DISCONNECTED ELSE HASS_STATE_CONNECTED

\* CompositeAllConnectedPublisher.send_state: the state group c publishes
CompositeAllConnectedPublisher_send_state(c) ==
    LET all_is_down == \A m \in Range(compound[c]) : state[m].current = None
    IN  IF all_is_down THEN HASS_STATE_DISCONNECTED ELSE HASS_STATE_CONNECTED

\* send_state without its try / except
HassEntity_send_state_unguarded(publish_raises) ==
    IF publish_raises THEN "raised" ELSE "sent"

\* HassEntity.send_state: what the coroutine does with an error of asyncio_publish
HassEntity_send_state(publish_raises) ==
    IF publish_raises THEN "logged" ELSE "sent"

\* common.APPNAME, the object id of the liveness sensor of ProbeService.run
APPNAME == "ha-net-probe"

\* HassEntity.state_topic of the entity with the object id object_id
state_topic(object_id) == <<object_id, "state">>

\* publisher_lookup.get(probe) of ProbeService._run_probes: the groups in the
\* list, each with the number of its entries (one per entry of the probe in
\* the member list of the group)
publisher_lookup(p) ==
    [c \in {g \in DOMAIN compound : p \in Range(compound[g])} |->
        Cardinality({i \in DOMAIN compound[c] : compound[c][i] = p})]

-----------------------------------------------------------------------------
(* The probe drivers *)

DEFAULT_PROBE_PING_PAYLOAD_SIZE == 56

\* packet_size of PingProbe._probe_action
packet_size == DEFAULT_PROBE_PING_PAYLOAD_SIZE + 8

\* What PingProbe._probe_action returns: a reply after rtt ms, or a loss
ProbeActionResults(rtts) ==
    {ProbeResult(Some(rtt), packet_size, packet_size) : rtt \in rtts}
    \cup {ProbeResult(None, packet_size, 0)}

-----------------------------------------------------------------------------
(* ProbeService._run_probe: one run-loop task per probe *)

RECURSIVE SumCounts(_)
SumCounts(ps) ==
    IF ps = {} THEN 0
    ELSE LET q == CHOOSE x \in ps : TRUE
         IN  state[q].total_count + SumCounts(ps \ {q})

\* The model follows the session for `bound` probe executions.
Budget(bound) == SumCounts(probes) < bound

Runs(p) == p \in probes /\ p \notin must_cancel

\* The first step of the task: up to the await of publisher.send_configuration()
StartRunProbe(p) ==
    /\ Runs(p)
    /\ pc[p] = "created"
    /\ pc' = [pc EXCEPT ![p] = "config"]
    /\ UNCHANGED <<config_vars, engine_vars, svc_vars, main_vars, must_cancel, published,
                   failed, compound_published, publish_tasks>>

\* ProbeBase.probe up to its first await: the pacing wait, or the driver at once
Pacing == {"sleep", "action"}

\* ProbePublisher.send_configuration returned: the loop calls probe.probe()
SendConfigurationDone(p, bound) ==
    /\ Runs(p)
    /\ pc[p] = "config"
    /\ Budget(bound)
    /\ \E next \in Pacing : pc' = [pc EXCEPT ![p] = next]
    /\ UNCHANGED <<config_vars, engine_vars, svc_vars, main_vars, must_cancel, published,
                   failed, compound_published, publish_tasks>>

\* HassEntity.send_configuration of one channel raised: nothing in
\* ProbePublisher.send_configuration or _run_probe handles it
SendConfigurationRaises(p) ==
    /\ Runs(p)
    /\ pc[p] = "config"
    /\ pc' = [pc EXCEPT ![p] = "failed"]
    /\ UNCHANGED <<config_vars, engine_vars, svc_vars, main_vars, must_cancel, published,
                   failed, compound_published, publish_tasks>>

\* asyncio.sleep(sleep_time) of ProbeBase.probe returned
SleepDone(p) ==
    /\ Runs(p)
    /\ pc[p] = "sleep"
    /\ pc' = [pc EXCEPT ![p] = "action"]
    /\ UNCHANGED <<config_vars, engine_vars, svc_vars, main_vars, must_cancel, published,
                   failed, compound_published, publish_tasks>>

\* probe() with `except Exception` taking the cancellation as well
probe_resume_swallowing(outcome) ==
    IF outcome.kind = "return"
    THEN [record |-> Some(outcome.result), raises |-> FALSE]
    ELSE [record |-> Some(ProbeResult(None, 0, 0)), raises |-> FALSE]

\* ProbeBase.probe after `await self._probe_action()`: outcome is the
\* ProbeResult returned, "Exception" or "CancelledError".  What is recorded
\* (None: nothing) and whether probe() raises.
Returned(result) == [kind |-> "return", result |-> result]
Raised(exception) == [kind |-> exception]

probe_resume(outcome) ==
    IF outcome.kind = "CancelledError" THEN [record |-> None, raises |-> TRUE]
    ELSE IF outcome.kind = "Exception"
         THEN [record |-> Some(ProbeResult(None, 0, 0)), raises |-> FALSE]
         ELSE [record |-> Some(outcome.result), raises |-> FALSE]

\* A handler inside the loop of _run_probe, which goes on to the next cycle
run_probe_except_in_loop(at) == "action"

\* The handler of _run_probe, around its loop: the state the task ends in
\* when the CancelledError is thrown into it at `at`
run_probe_except(at) == IF at = "created" THEN "dropped" ELSE "cancelled"

\* The rest of ProbeBase.probe and the return to _run_probe, which awaits
\* gather(publisher.send_state(), published_callback(probe))
ProbeResumes(p, outcome) ==
    LET r == probe_resume(outcome)
    IN  /\ IF r.record = None
           THEN UNCHANGED engine_vars
           ELSE Record(p, Get(r.record))
        /\ pc' = [pc EXCEPT ![p] = IF r.raises THEN run_probe_except(pc[p])
                                              ELSE "send_state"]
        /\ must_cancel' = must_cancel \ {p}
        /\ absorbed' = IF r.raises THEN absorbed \cup {"_run_probe"} ELSE absorbed
        /\ UNCHANGED <<config_vars, svc_vars, pending, connect_vars, config_file, will,
                       published, failed, compound_published, publish_tasks>>

\* The driver returned a ProbeResult
ProbeActionReturns(p, rtts) ==
    /\ Runs(p)
    /\ pc[p] = "action"
    /\ \E result \in ProbeActionResults(rtts) : ProbeResumes(p, Returned(result))

\* The driver raised an error that is no cancellation
ProbeActionRaises(p) ==
    /\ Runs(p)
    /\ pc[p] = "action"
    /\ ProbeResumes(p, Raised("Exception"))

\* ProbePublisher.send_state runs up to its gather, then on_update_published
\* looks the probe up; both tasks were created by the gather of _run_probe
SendState(p) ==
    /\ Runs(p)
    /\ pc[p] = "send_state"
    /\ LET r == ProbePublisher_send_state(p)
           more == DOMAIN publisher_lookup(p) # {}
       IN  /\ published' = [published EXCEPT ![p] = r.pub_tasks]
           /\ pc' = [pc EXCEPT ![p] =
                  IF r.raises
                  THEN (IF more THEN "callback_raised" ELSE "failed")
                  ELSE (IF more THEN "callback" ELSE "gather")]
    /\ UNCHANGED <<config_vars, engine_vars, svc_vars, main_vars, must_cancel, failed,
                   compound_published, publish_tasks>>

\* on_update_published: the send_state of every group the probe belongs to
OnUpdatePublished(p) ==
    /\ Runs(p)
    /\ pc[p] \in {"callback", "callback_raised"}
    /\ compound_published' =
           [c \in DOMAIN compound |->
               IF c \in DOMAIN publisher_lookup(p)
               THEN Some(CompositeAllConnectedPublisher_send_state(c))
               ELSE compound_published[c]]
    /\ publish_tasks' = [publish_tasks EXCEPT ![p] = publisher_lookup(p)]
    /\ pc' = [pc EXCEPT ![p] = IF pc[p] = "callback" THEN "gather" ELSE "failed"]
    /\ UNCHANGED <<config_vars, engine_vars, svc_vars, main_vars, must_cancel, published, failed>>

\* The sensors whose send_state coroutines the cycle of p awaits
CycleChannels(p) == DOMAIN published[p] \cup DOMAIN publisher_lookup(p)

\* The publishes that failed in the cycles under way
PublishFailures == UNION {{<<p, ch>> : ch \in failed[p]} : p \in probes}

\* asyncio_publish raised in HassEntity.send_state of one channel of the
\* cycle; the model lets the publishes of `channels` fail
ChannelPublishRaises(p, channels) ==
    /\ Runs(p)
    /\ pc[p] = "gather"
    /\ Cardinality(PublishFailures) < MaxPublishFailures
    /\ \E ch \in (CycleChannels(p) \cap channels) \ failed[p] :
          /\ failed' = [failed EXCEPT ![p] = @ \cup {ch}]
          /\ pc' = [pc EXCEPT ![p] =
                 IF HassEntity_send_state(TRUE) = "logged" THEN "gather" ELSE "failed"]
    /\ UNCHANGED <<config_vars, engine_vars, svc_vars, main_vars, must_cancel, published,
                   compound_published, publish_tasks>>

\* Every coroutine of the gather of _run_probe is done: the loop calls probe.probe()
PublishDone(p, bound) ==
    /\ Runs(p)
    /\ pc[p] = "gather"
    /\ Budget(bound)
    /\ \E next \in Pacing : pc' = [pc EXCEPT ![p] = next]
    /\ failed' = [failed EXCEPT ![p] = {}]
    /\ publish_tasks' = [publish_tasks EXCEPT ![p] = <<>>]
    /\ UNCHANGED <<config_vars, engine_vars, svc_vars, main_vars, must_cancel, published,
                   compound_published>>

\* Task.cancel() on the run-loop task of p
Live(p) == pc[p] \notin {"cancelled", "dropped", "failed", "none"}

CancelRunProbe(p) ==
    /\ Runs(p)
    /\ Live(p)
    /\ must_cancel' = must_cancel \cup {p}
    /\ UNCHANGED <<config_vars, engine_vars, svc_vars, main_vars, pc, published, failed,
                   compound_published, publish_tasks>>

\* The coroutines of the run-loop task of p that catch the CancelledError
\* and return: none when the task has not started; else the handler of
\* _run_probe, and the handler of on_update_published when the callback is
\* still waiting for the publishes of its groups (waiting).
Absorbing(p, waiting) ==
    IF pc[p] = "created" THEN {}
    ELSE {"_run_probe"} \cup (IF waiting THEN {"on_update_published"} ELSE {})

\* The CancelledError is thrown into the task where it is suspended: inside
\* probe() (the pacing wait or the driver), or in _run_probe itself, whose
\* handler ends the task and with it the cycle under way.  A task that has
\* not run yet is dropped: it ends as a cancelled task without a step.
CancelledErrorThrown(p) ==
    /\ p \in must_cancel
    /\ IF pc[p] \in {"sleep", "action"}
       THEN ProbeResumes(p, Raised("CancelledError"))
       ELSE /\ pc' = [pc EXCEPT ![p] = run_probe_except(pc[p])]
            /\ must_cancel' = must_cancel \ {p}
            /\ failed' = [failed EXCEPT ![p] = {}]
            /\ publish_tasks' = [publish_tasks EXCEPT ![p] = <<>>]
            /\ \E waiting \in {w \in BOOLEAN :
                                  w => pc[p] = "gather" /\ DOMAIN publisher_lookup(p) # {}} :
                  absorbed' = absorbed \cup Absorbing(p, waiting)
            /\ UNCHANGED <<config_vars, engine_vars, svc_vars, pending, connect_vars,
                           config_file, will, published, compound_published>>

\* The steps of the run-loop task of p
RunProbe(p, rtts, bound, channels) ==
    \/ StartRunProbe(p)
    \/ SendConfigurationDone(p, bound)
    \/ SendConfigurationRaises(p)
    \/ SleepDone(p)
    \/ ProbeActionReturns(p, rtts)
    \/ ProbeActionRaises(p)
    \/ SendState(p)
    \/ OnUpdatePublished(p)
    \/ ChannelPublishRaises(p, channels)
    \/ PublishDone(p, bound)
    \/ CancelledErrorThrown(p)

-----------------------------------------------------------------------------
(* One run-loop task and its engine *)

\* ProbeBase.__init__ for every probe of ps
InitEngines(ps) ==
    /\ probes = ps
    /\ _hist = [p \in ps |-> <<>>]
    /\ state = [p \in ps |-> ProbeState]
    /\ recorded = [p \in ps |-> <<>>]

\* No session of ProbeService.run is modelled.
NoService ==
    /\ svc = "none"
    /\ shutdown_event = FALSE
    /\ main_cancel = FALSE
    /\ raised = "none"
    /\ online = "none"
    /\ pending = <<>>
    /\ sleep_on_error = 0
    /\ sleep_time = 0
    /\ connect_failures = 0
    /\ config_file = "none"
    /\ absorbed = {}
    /\ will = None

\* One engine, of any capacity, that is the one member of one group; its
\* run-loop task has been created.
Init ==
    /\ InitEngines({"p1"})
    /\ history_len \in [{"p1"} -> 1..MaxHistoryLen]
    /\ publish_precision \in [{"p1"} -> PrecisionValues]
    /\ compound = [c \in {"c1"} |-> <<"p1">>]
    /\ pc = [p \in {"p1"} |-> "created"]
    /\ must_cancel = {}
    /\ published = [p \in {"p1"} |-> <<>>]
    /\ failed = [p \in {"p1"} |-> {}]
    /\ compound_published = [c \in DOMAIN compound |-> None]
    /\ publish_tasks = [p \in {"p1"} |-> <<>>]
    /\ NoService

Next ==
    \E p \in Probes :
        \/ RunProbe(p, LoopRTTValues, LoopMaxCount, SensorCode \cup Groups)
        \/ CancelRunProbe(p)

Spec == Init /\ [][Next]_vars

-----------------------------------------------------------------------------
(* The engine alone: probe() awaited to its end, one call after the other *)

\* A call of ProbeBase.probe() that the driver ends by returning a ProbeResult
ProbeReturns(p, rtts, bound) ==
    /\ p \in probes
    /\ pc[p] = "none"
    /\ Budget(bound)
    /\ \E result \in ProbeActionResults(rtts) :
          Record(p, Get(probe_resume(Returned(result)).record))
    /\ UNCHANGED <<config_vars, loop_vars, svc_vars, main_vars>>

\* A call of ProbeBase.probe() whose driver raises an error
ProbeRaises(p, bound) ==
    /\ p \in probes
    /\ pc[p] = "none"
    /\ Budget(bound)
    /\ Record(p, Get(probe_resume(Raised("Exception")).record))
    /\ UNCHANGED <<config_vars, loop_vars, svc_vars, main_vars>>

EngineInit ==
    /\ InitEngines({"p1"})
    /\ history_len \in [{"p1"} -> 1..MaxHistoryLen]
    /\ publish_precision \in [{"p1"} -> PrecisionValues]
    /\ compound = <<>>
    /\ pc = [p \in {"p1"} |-> "none"]
    /\ must_cancel = {}
    /\ published = [p \in {"p1"} |-> <<>>]
    /\ failed = [p \in {"p1"} |-> {}]
    /\ compound_published = <<>>
    /\ publish_tasks = [p \in {"p1"} |-> <<>>]
    /\ NoService

EngineNext ==
    \E p \in Probes :
        \/ ProbeReturns(p, RTTValues, MaxCount)
        \/ ProbeRaises(p, MaxCount)

EngineSpec == EngineInit /\ [][EngineNext]_vars

-----------------------------------------------------------------------------
(* ProbeService.run: one session, from the connect to the return to main() *)

DEFAULT_PROBE_PUBLISH_PRECISION == 1

\* The channels whose state publish the model of the session lets fail
SvcFailingChannels == {RTT_AVERAGE} \cup Groups

Signals == {"SIGHUP", "SIGTERM", "SIGINT"}

\* The client ProbeService.__init__ creates: no last-will message is set on it
AsyncioPahoClient == None

\* _configure_mqtt without its call of will_set
configure_mqtt_without_will(will_topic) == AsyncioPahoClient

\* ProbeService._configure_mqtt: the last-will message it sets on the client
configure_mqtt(will_topic) ==
    Some([topic |-> will_topic, payload |-> HASS_STATE_DISCONNECTED, qos |-> 1,
          retain |-> TRUE])

\* The run-loop tasks have all ended, so the gather of _run_probes is done
\* (it is done as well, with the error, once one of them has failed).
RunProbesDone == \A p \in probes : ~Live(p)

\* No call of _connect_mqtt is under way: its locals as a call starts with
ConnectNotRunning ==
    /\ sleep_on_error' = 0
    /\ sleep_time' = 0
    /\ connect_failures' = 0

\* _connect_mqtt returned: run() awaits service_online_sensor.send_configuration()
ConnectReturns ==
    /\ svc = "connect"
    /\ ~main_cancel
    /\ svc' = "discovery"
    /\ ConnectNotRunning
    /\ UNCHANGED <<config_vars, engine_vars, loop_vars, shutdown_event, main_cancel,
                   raised, online, pending, config_file, will, absorbed>>

\* The descriptor of the liveness sensor is published: run() awaits the gather
\* of _run_probes() and the "connected" liveness publish, which creates a
\* task for each.
ServiceConfigurationSent ==
    /\ svc = "discovery"
    /\ ~main_cancel
    /\ svc' = "running"
    /\ UNCHANGED <<config_vars, engine_vars, loop_vars, main_vars, shutdown_event,
                   main_cancel, raised, online>>

\* The publish of the descriptor raised: run() leaves through its finally
\* clause (disconnect, then the 0.5 s sleep) with the error.
ServiceConfigurationRaises ==
    /\ svc = "discovery"
    /\ ~main_cancel
    /\ svc' = "closing"
    /\ raised' = "Exception"
    /\ UNCHANGED <<config_vars, engine_vars, loop_vars, main_vars, shutdown_event,
                   main_cancel, online>>

\* The first steps of the two tasks of the gather of run(), in the order of
\* their creation: ProbeService._run_probes up to its gather, which creates
\* a task for the descriptor of every group and one run-loop task per probe,
\* then the liveness sensor's send_state up to its await of the publish.
RunProbes ==
    /\ svc = "running"
    /\ ~main_cancel
    /\ \A p \in probes : pc[p] = "none"
    /\ pc' = [p \in probes |-> "created"]
    /\ online' = "sending"
    /\ UNCHANGED <<config_vars, engine_vars, main_vars, must_cancel, published,
                   failed, compound_published, publish_tasks, svc, shutdown_event, main_cancel,
                   raised>>

\* The "connected" liveness publish is done; an error of it is logged by
\* HassEntity.send_state.
LivenessPublished ==
    /\ online = "sending"
    /\ ~main_cancel
    /\ \E publish_raises \in BOOLEAN :
          online' = IF HassEntity_send_state(publish_raises) = "sent"
                    THEN HASS_STATE_CONNECTED ELSE "none"
    /\ UNCHANGED <<config_vars, engine_vars, loop_vars, main_vars, svc,
                   shutdown_event, main_cancel, raised>>

\* A run-loop task ended with an error: the gather of _run_probes, and with
\* it the gather of run(), raises it; run() has no handler for it and leaves
\* through its finally clause.
RunProbesRaises ==
    /\ svc = "running"
    /\ ~main_cancel
    /\ \E p \in probes : pc[p] = "failed"
    /\ svc' = "closing"
    /\ raised' = "Exception"
    /\ UNCHANGED <<config_vars, engine_vars, loop_vars, main_vars, shutdown_event,
                   main_cancel, online>>

\* A shutdown that cancels the main task only
shutdown_tasks_main_only == {}

\* tasks of shutdown(): every task of the loop but the current one; of the
\* run-loop tasks, those that have not ended
shutdown_tasks == {p \in probes : Live(p)}

\* shutdown(sig, loop): sets the stop flag unless the signal is SIGHUP, and
\* cancels every other task of the loop: the main task, the run-loop tasks,
\* the "connected" publish under way, and the shutdown tasks of the signals
\* that came after sig, which then never run.
Shutdown(sig) ==
    /\ svc \in {"connect", "connect_sleep", "discovery", "running", "goodbye",
                "closing"}
    /\ shutdown_event' = (shutdown_event \/ sig # "SIGHUP")
    /\ main_cancel' = TRUE
    /\ must_cancel' = shutdown_tasks
    /\ online' = IF online = "sending" THEN "cancelled" ELSE online
    /\ pending' = <<>>
    /\ UNCHANGED <<config_vars, engine_vars, svc, raised, pc, published, failed,
                   compound_published, publish_tasks, connect_vars, config_file, will, absorbed>>

\* A loop of main() that does not test the stop flag
BackInMain_unconditional == "reload"

\* The return of run() to the loop of main(): the process ends when the stop
\* flag is set, else main() loads the configuration again.
BackInMain == IF shutdown_event' THEN "stopped" ELSE "reload"

\* main() is left, by its return or by an error: asyncio.run cancels the
\* tasks that are left and runs them to their end.
CancelAllTasks ==
    /\ pc' = [p \in probes |-> IF Live(p) THEN "cancelled" ELSE pc[p]]
    /\ must_cancel' = {}
    /\ failed' = [p \in probes |-> {}]
    /\ publish_tasks' = [p \in probes |-> IF Live(p) THEN <<>> ELSE publish_tasks[p]]
    /\ UNCHANGED <<published, compound_published>>

\* run() returns to main(), with caught the handlers of run() that took a
\* CancelledError on the way.
RunReturns(caught) ==
    /\ svc' = BackInMain
    /\ raised' = "none"
    /\ IF shutdown_event'
       THEN /\ CancelAllTasks
            /\ absorbed' = absorbed \cup caught
                   \cup UNION {Absorbing(p, FALSE) : p \in {q \in probes : Live(q)}}
       ELSE /\ UNCHANGED loop_vars
            /\ absorbed' = absorbed \cup caught

\* The run-loop of p awaits a gather (of its descriptors, or of the state
\* messages of a cycle): a cancellation reaches it through the tasks of the
\* gather, some turns of the event loop after it reaches a task that sleeps,
\* awaits the driver or has not started.
Nested(p) == pc[p] \in {"config", "send_state", "callback", "callback_raised", "gather"}

\* The gather of run() is done: a gather without return_exceptions ends with
\* the first of its tasks that fails or ends cancelled, and else with the
\* last one.  Its tasks are the "connected" publish and _run_probes, which
\* awaits such a gather of the run-loop tasks.  The event loop runs what is
\* ready in the order it became ready, so the end of a cancelled task is
\* ahead of run() only of the run-loops that await a gather.
GatherDone ==
    \/ RunProbesDone
    \/ \E p \in probes : pc[p] = "failed"
    \/ /\ online = "cancelled" \/ \E p \in probes : pc[p] = "dropped"
       /\ \A p \in probes : Live(p) => Nested(p)

\* The CancelledError reaches the main task where run() is suspended: in
\* _connect_mqtt and in the sleep of the finally clause the outer handler of
\* run() takes it, at the gather the inner one.
MainCancelled ==
    /\ main_cancel
    /\ svc \in {"connect", "connect_sleep", "discovery", "running", "goodbye",
                "closing"}
    /\ svc = "running" => GatherDone
    /\ main_cancel' = FALSE
    /\ UNCHANGED shutdown_event
    /\ \/ /\ svc \in {"connect", "connect_sleep", "closing"}
          /\ RunReturns({"run"})
          /\ ConnectNotRunning
       \/ /\ svc \in {"discovery", "goodbye"}
          /\ svc' = "closing"
          /\ raised' = "CancelledError"
          /\ UNCHANGED <<loop_vars, connect_vars, absorbed>>
       \/ /\ svc = "running"
          /\ svc' = "goodbye"
          /\ raised' = "none"
          /\ absorbed' = absorbed \cup {"run"}
          /\ UNCHANGED <<loop_vars, connect_vars>>
    /\ online' = IF online = "cancelled" THEN "none" ELSE online
    /\ UNCHANGED <<config_vars, engine_vars, pending, config_file, will>>

\* The final "disconnected" liveness publish is done, or its error logged;
\* run() goes on to its finally clause.
GoodbyePublished ==
    /\ svc = "goodbye"
    /\ ~main_cancel
    /\ \E publish_raises \in BOOLEAN :
          online' = IF HassEntity_send_state(publish_raises) = "sent"
                    THEN HASS_STATE_DISCONNECTED ELSE online
    /\ svc' = "closing"
    /\ UNCHANGED <<config_vars, engine_vars, loop_vars, main_vars, shutdown_event,
                   main_cancel, raised>>

\* The sleep of the finally clause is over.  A CancelledError ends in the
\* handler of run(); an error leaves run() and main(), and asyncio.run
\* cancels what is left of the tasks.
CloseDone ==
    /\ svc = "closing"
    /\ ~main_cancel
    /\ UNCHANGED shutdown_event
    /\ IF raised = "Exception"
       THEN /\ svc' = "crashed"
            /\ CancelAllTasks
            /\ absorbed' = absorbed
                   \cup UNION {Absorbing(p, FALSE) : p \in {q \in probes : Live(q)}}
            /\ UNCHANGED raised
       ELSE RunReturns(IF raised = "CancelledError" THEN {"run"} ELSE {})
    /\ UNCHANGED <<config_vars, engine_vars, main_cancel, online, pending,
                   connect_vars, config_file, will>>

\* Two probes with the default precision, and the group of both.
SvcInit ==
    /\ InitEngines(Probes)
    /\ history_len = [p \in Probes |-> SvcHistoryLen]
    /\ publish_precision = [p \in Probes |-> DEFAULT_PROBE_PUBLISH_PRECISION]
    /\ compound = [c \in {"c1"} |-> <<"p1", "p2">>]
    /\ pc = [p \in Probes |-> "none"]
    /\ must_cancel = {}
    /\ published = [p \in Probes |-> <<>>]
    /\ failed = [p \in Probes |-> {}]
    /\ compound_published = [c \in DOMAIN compound |-> None]
    /\ publish_tasks = [p \in Probes |-> <<>>]
    /\ svc = "connect"
    /\ shutdown_event = FALSE
    /\ main_cancel = FALSE
    /\ raised = "none"
    /\ online = "none"
    /\ pending = <<>>
    /\ sleep_on_error = 0
    /\ sleep_time = 0
    /\ connect_failures = 0
    /\ config_file = "none"
    /\ absorbed = {}
    /\ will = configure_mqtt(state_topic(APPNAME))

SvcNext ==
    \/ ConnectReturns
    \/ ServiceConfigurationSent
    \/ ServiceConfigurationRaises
    \/ RunProbes
    \/ LivenessPublished
    \/ RunProbesRaises
    \/ \E sig \in Signals : Shutdown(sig)
    \/ MainCancelled
    \/ GoodbyePublished
    \/ CloseDone
    \/ \E p \in Probes : RunProbe(p, SvcRTTValues, SvcMaxCount, SvcFailingChannels)

SvcSpec == SvcInit /\ [][SvcNext]_vars

-----------------------------------------------------------------------------
(* ProbeService._connect_mqtt: the retry loop of the connect *)

\* The handlers of the loop: a CancelledError is raised again, any other
\* error of an attempt is logged and the loop goes on.
connect_mqtt_raising(exception) == "raise"

connect_mqtt_except(exception) ==
    IF exception = "CancelledError" THEN "raise" ELSE "retry"

max_sleep_on_error == 10

\* The wait without the cap
sleep_time_uncapped(on_error) == on_error

\* sleep_time of _connect_mqtt, for a sleep_on_error > 0
sleep_time_of(on_error) ==
    IF on_error < max_sleep_on_error THEN on_error ELSE max_sleep_on_error

\* asyncio_connect raised an error: sleep_on_error grows by 2 and the next
\* turn of the loop starts with the backoff sleep.  (An error the loop let
\* through would leave run() and main().)  The model follows the loop for
\* `bound` failures.
ConnectRaises(bound) ==
    /\ svc = "connect"
    /\ ~main_cancel
    /\ connect_failures < bound
    /\ IF connect_mqtt_except("Exception") = "retry"
       THEN /\ sleep_on_error' = sleep_on_error + 2
            /\ sleep_time' = sleep_time_of(sleep_on_error')
            /\ connect_failures' = connect_failures + 1
            /\ svc' = "connect_sleep"
            /\ UNCHANGED <<loop_vars, raised, absorbed>>
       ELSE /\ svc' = "crashed"
            /\ raised' = "Exception"
            /\ CancelAllTasks
            /\ UNCHANGED <<connect_vars, absorbed>>
    /\ UNCHANGED <<config_vars, engine_vars, shutdown_event, main_cancel, online,
                   pending, config_file, will>>

\* The backoff sleep is over: the next attempt
ConnectSleepDone ==
    /\ svc = "connect_sleep"
    /\ ~main_cancel
    /\ svc' = "connect"
    /\ UNCHANGED <<config_vars, engine_vars, loop_vars, main_vars, shutdown_event,
                   main_cancel, raised, online>>

-----------------------------------------------------------------------------
(* main(): the signal handlers and the loop over the sessions *)

\* What a configuration file holds, as far as validate_config and
\* ProbeService.__init__ read it: the names of the dns and ping probes and
\* the all-down groups with their members.
Member(type, name) == [type |-> type, name |-> name]
Group(name, members) == [name |-> name, probes |-> members]
ConfigFile(dns, ping, all_down) == [dns |-> dns, ping |-> ping, all_down |-> all_down]

ValidFile == ConfigFile(<<>>, <<"p1">>, <<Group("c1", <<Member("ping", "p1")>>)>>)
NoProbesFile == ConfigFile(<<>>, <<>>, <<>>)
DuplicateProbeFile == ConfigFile(<<>>, <<"p1", "p1">>, <<>>)
DuplicateGroupFile ==
    ConfigFile(<<>>, <<"p1">>, <<Group("c1", <<Member("ping", "p1")>>),
                                 Group("c1", <<Member("ping", "p1")>>)>>)
MissingMemberFile == ConfigFile(<<"p2">>, <<"p1">>, <<Group("c1", <<Member("ping", "p2")>>)>>)

ConfigFiles ==
    {ValidFile, NoProbesFile, DuplicateProbeFile, DuplicateGroupFile, MissingMemberFile}

\* check_duplicate_name of validate_config
check_duplicate_name(names) ==
    \E i, j \in DOMAIN names : i # j /\ names[i] = names[j]

\* validate_config: TRUE when it raises confuse.ConfigError
validate_config_lenient(config) == FALSE

validate_config(config) ==
    \/ check_duplicate_name(config.dns)
    \/ check_duplicate_name(config.ping)
    \/ check_duplicate_name([i \in DOMAIN config.all_down |-> config.all_down[i].name])
    \/ \E cfg \in Range(config.all_down) :
          \E probe_cfg \in Range(cfg.probes) :
              \/ probe_cfg.type = "dns" /\ probe_cfg.name \notin Range(config.dns)
              \/ probe_cfg.type = "ping" /\ probe_cfg.name \notin Range(config.ping)

\* The list of members create_composite_publisher finds for a group: one
\* entry for every entry of the configuration that names a probe
composite_probes(config, cfg) ==
    LET found(x) == \/ x.type = "dns" /\ x.name \in Range(config.dns)
                    \/ x.type = "ping" /\ x.name \in Range(config.ping)
        targets == SelectSeq(cfg.probes, found)
    IN  [i \in 1..Len(targets) |-> targets[i].name]

\* ProbeService.__init__ and run() up to its first await, in _connect_mqtt,
\* or up to its return when there is no probe
NewSession(config) ==
    LET ps == Range(config.dns) \cup Range(config.ping)
        groups == {cfg.name : cfg \in Range(config.all_down)}
    IN  /\ probes' = ps
        /\ history_len' = [p \in ps |-> SvcHistoryLen]
        /\ publish_precision' = [p \in ps |-> DEFAULT_PROBE_PUBLISH_PRECISION]
        /\ compound' = [c \in groups |->
               composite_probes(config, CHOOSE cfg \in Range(config.all_down) : cfg.name = c)]
        /\ _hist' = [p \in ps |-> <<>>]
        /\ state' = [p \in ps |-> ProbeState]
        /\ recorded' = [p \in ps |-> <<>>]
        /\ pc' = [p \in ps |-> "none"]
        /\ must_cancel' = {}
        /\ published' = [p \in ps |-> <<>>]
        /\ failed' = [p \in ps |-> {}]
        /\ compound_published' = [c \in groups |-> None]
        /\ publish_tasks' = [p \in ps |-> <<>>]
        /\ svc' = IF ps = {} THEN "reload" ELSE "connect"
        /\ will' = IF ps = {} THEN AsyncioPahoClient
                   ELSE configure_mqtt(state_topic(APPNAME))
        /\ UNCHANGED shutdown_event

\* One turn of the loop of main(), which runs while the stop flag is clear:
\* a configuration that fails to load sets the flag; a group without a
\* member makes create_composite_publisher raise an error that ends main();
\* a configuration without probes makes run() return at once, and main()
\* takes its next turn without having awaited anything; else a session starts.
LoadConfiguration ==
    /\ svc = "reload"
    /\ \A p \in probes : ~Live(p)
    /\ IF validate_config(config_file)
       THEN /\ shutdown_event' = TRUE
            /\ svc' = "stopped"
            /\ UNCHANGED <<config_vars, engine_vars, loop_vars, will>>
       ELSE IF \E cfg \in Range(config_file.all_down) :
                    composite_probes(config_file, cfg) = <<>>
            THEN /\ svc' = "crashed"
                 /\ UNCHANGED <<config_vars, engine_vars, loop_vars, shutdown_event,
                                will>>
            ELSE NewSession(config_file)
    /\ ConnectNotRunning
    /\ raised' = "none"
    /\ online' = "none"
    /\ absorbed' = {}
    /\ UNCHANGED <<main_cancel, pending, config_file>>

\* main() is suspended in an await of run()
MainAwaits ==
    svc \in {"connect", "connect_sleep", "discovery", "running", "goodbye", "closing"}

\* main() takes turn after turn of its loop with a configuration without
\* probes: it awaits nothing, so no other task and no signal handler runs
Spinning ==
    /\ svc = "reload"
    /\ ~validate_config(config_file)
    /\ Range(config_file.dns) \cup Range(config_file.ping) = {}

\* The configuration file is edited
ConfigFileWritten(config) ==
    /\ MainAwaits \/ Spinning
    /\ config # config_file
    /\ config_file' = config
    /\ UNCHANGED <<config_vars, engine_vars, loop_vars, svc_vars, pending,
                   connect_vars, absorbed, will>>

\* The shutdown tasks the model lets wait at once: up to two
PendingQueues ==
    {<<>>} \cup {<<a>> : a \in Signals} \cup {<<a, b>> : a, b \in Signals}

\* The process receives sig: its handler creates the task shutdown(sig, loop)
\* once the event loop runs it
SignalArrives(sig) ==
    /\ MainAwaits \/ Spinning
    /\ Append(pending, sig) \in PendingQueues
    /\ pending' = Append(pending, sig)
    /\ UNCHANGED <<config_vars, engine_vars, loop_vars, svc_vars, connect_vars,
                   config_file, will, absorbed>>

\* The oldest of the created shutdown tasks runs
ShutdownRuns ==
    /\ pending # <<>>
    /\ Shutdown(Head(pending))

\* The process is started with some configuration file
MainInit ==
    /\ InitEngines({})
    /\ history_len = <<>>
    /\ publish_precision = <<>>
    /\ compound = <<>>
    /\ pc = <<>>
    /\ must_cancel = {}
    /\ published = <<>>
    /\ failed = <<>>
    /\ compound_published = <<>>
    /\ publish_tasks = <<>>
    /\ svc = "reload"
    /\ shutdown_event = FALSE
    /\ main_cancel = FALSE
    /\ raised = "none"
    /\ online = "none"
    /\ pending = <<>>
    /\ sleep_on_error = 0
    /\ sleep_time = 0
    /\ connect_failures = 0
    /\ config_file \in ConfigFiles
    /\ absorbed = {}
    /\ will = None

\* The channels whose state publish the model of main() lets fail
MainFailingChannels == {RTT}

MainNext ==
    \/ LoadConfiguration
    \/ \E config \in ConfigFiles : ConfigFileWritten(config)
    \/ \E sig \in Signals : SignalArrives(sig)
    \/ ShutdownRuns
    \/ ConnectRaises(MaxConnectFailures)
    \/ ConnectSleepDone
    \/ ConnectReturns
    \/ ServiceConfigurationSent
    \/ ServiceConfigurationRaises
    \/ RunProbes
    \/ LivenessPublished
    \/ RunProbesRaises
    \/ MainCancelled
    \/ GoodbyePublished
    \/ CloseDone
    \/ \E p \in Probes : RunProbe(p, SvcRTTValues, MainMaxCount, MainFailingChannels)

MainSpec == MainInit /\ [][MainNext]_vars

\* The event loop runs every task that is ready, and a sleep or an exchange
\* with the broker that no error ends comes to its end.  Nothing is assumed
\* of the signals, the edits of the configuration file and the errors.
MainFairness ==
    /\ WF_vars(LoadConfiguration)
    /\ WF_vars(ShutdownRuns)
    /\ WF_vars(ConnectSleepDone)
    /\ WF_vars(ConnectReturns)
    /\ WF_vars(ServiceConfigurationSent)
    /\ WF_vars(RunProbes)
    /\ WF_vars(LivenessPublished)
    /\ WF_vars(RunProbesRaises)
    /\ WF_vars(MainCancelled)
    /\ WF_vars(GoodbyePublished)
    /\ WF_vars(CloseDone)
    /\ \A p \in Probes :
          WF_vars(RunProbe(p, SvcRTTValues, MainMaxCount, MainFailingChannels))

MainFairSpec == MainSpec /\ MainFairness

-----------------------------------------------------------------------------
(* The connect of one session, under signals *)

\* run() of a session with one probe awaits _connect_mqtt
ConnectInit ==
    /\ InitEngines({"p1"})
    /\ history_len = [p \in probes |-> SvcHistoryLen]
    /\ publish_precision = [p \in probes |-> DEFAULT_PROBE_PUBLISH_PRECISION]
    /\ compound = [c \in {"c1"} |-> <<"p1">>]
    /\ pc = [p \in probes |-> "none"]
    /\ must_cancel = {}
    /\ published = [p \in probes |-> <<>>]
    /\ failed = [p \in probes |-> {}]
    /\ compound_published = [c \in DOMAIN compound |-> None]
    /\ publish_tasks = [p \in probes |-> <<>>]
    /\ svc = "connect"
    /\ shutdown_event = FALSE
    /\ main_cancel = FALSE
    /\ raised = "none"
    /\ online = "none"
    /\ pending = <<>>
    /\ sleep_on_error = 0
    /\ sleep_time = 0
    /\ connect_failures = 0
    /\ config_file = ValidFile
    /\ absorbed = {}
    /\ will = configure_mqtt(state_topic(APPNAME))

ConnectNext ==
    \/ ConnectRaises(ConnectMaxFailures)
    \/ ConnectSleepDone
    \/ ConnectReturns
    \/ \E sig \in Signals : SignalArrives(sig)
    \/ ShutdownRuns
    \/ MainCancelled

ConnectSpec == ConnectInit /\ [][ConnectNext]_vars

-----------------------------------------------------------------------------
(* The run-loops of two probes and one group, as ProbeService.__init__ *)
(* builds them from a configuration file                                *)

\* p2 is in no group
OneMemberFile ==
    ConfigFile(<<>>, <<"p1", "p2">>, <<Group("c1", <<Member("ping", "p1")>>)>>)

\* The member list of the group names p1 twice
DuplicateMemberFile ==
    ConfigFile(<<>>, <<"p1", "p2">>,
               <<Group("c1", <<Member("ping", "p1"), Member("ping", "p1")>>)>>)

GroupConfigFiles == {OneMemberFile, DuplicateMemberFile}

\* The session load_configuration and ProbeService.__init__ make of a file
\* that validate_config accepts; the run-loop tasks have been created.
GroupInit ==
    \E config \in GroupConfigFiles :
        /\ ~validate_config(config)
        /\ InitEngines(Range(config.dns) \cup Range(config.ping))
        /\ history_len = [p \in probes |-> SvcHistoryLen]
        /\ publish_precision = [p \in probes |-> DEFAULT_PROBE_PUBLISH_PRECISION]
        /\ compound = [c \in {cfg.name : cfg \in Range(config.all_down)} |->
               composite_probes(config, CHOOSE cfg \in Range(config.all_down) : cfg.name = c)]
        /\ pc = [p \in probes |-> "created"]
        /\ must_cancel = {}
        /\ published = [p \in probes |-> <<>>]
        /\ failed = [p \in probes |-> {}]
        /\ compound_published = [c \in DOMAIN compound |-> None]
        /\ publish_tasks = [p \in probes |-> <<>>]
        /\ NoService

\* The channels whose state publish the model of the groups lets fail
GroupFailingChannels == Groups

GroupNext ==
    \E p \in Probes :
        \/ RunProbe(p, SvcRTTValues, GroupMaxCount, GroupFailingChannels)
        \/ CancelRunProbe(p)

GroupSpec == GroupInit /\ [][GroupNext]_vars

-----------------------------------------------------------------------------
(* The constructors of the probes, as ProbeService.__init__ calls them *)

\* ProbeBase.__init__(self, probe_config) called with the positional
\* arguments args: Python raises TypeError unless there is exactly one; else
\* the engine starts with an empty history and a ProbeState of zeros
ProbeBase_init(args) ==
    IF Len(args) # Len(<<"probe_config">>)
    THEN [raises |-> TRUE]
    ELSE [raises |-> FALSE, _hist |-> <<>>, state |-> ProbeState]

\* DnsProbe.__init__: super().__init__(logger, probe_config)
DnsProbe_init(probe_config) == ProbeBase_init(<<"logger", probe_config>>)

\* PingProbe.__init__: super().__init__(logger, probe_config)
PingProbe_init(probe_config) == ProbeBase_init(<<"logger", probe_config>>)

\* The list comprehensions of ProbeService.__init__ raise: a constructor of
\* a configured probe does
ProbeService_init_raises(config) ==
    \/ \E cfg \in Range(config.dns) : DnsProbe_init(cfg).raises
    \/ \E cfg \in Range(config.ping) : PingProbe_init(cfg).raises

\* One turn of the loop of main() with the constructors as they are: the
\* TypeError of a constructor leaves ProbeService.__init__ and main(), which
\* handles confuse.ConfigError only
MainTurn ==
    IF ~validate_config(config_file) /\ ProbeService_init_raises(config_file)
    THEN /\ svc = "reload"
         /\ svc' = "crashed"
         /\ raised' = "TypeError"
         /\ UNCHANGED <<config_vars, engine_vars, loop_vars, main_vars,
                        shutdown_event, main_cancel, online>>
    ELSE LoadConfiguration

DnsFile == ConfigFile(<<"p2">>, <<>>, <<>>)

BuildConfigFiles == ConfigFiles \cup GroupConfigFiles \cup {DnsFile}

\* The process is started with some configuration file
BuildInit ==
    /\ InitEngines({})
    /\ history_len = <<>>
    /\ publish_precision = <<>>
    /\ compound = <<>>
    /\ pc = <<>>
    /\ must_cancel = {}
    /\ published = <<>>
    /\ failed = <<>>
    /\ compound_published = <<>>
    /\ publish_tasks = <<>>
    /\ svc = "reload"
    /\ shutdown_event = FALSE
    /\ main_cancel = FALSE
    /\ raised = "none"
    /\ online = "none"
    /\ pending = <<>>
    /\ sleep_on_error = 0
    /\ sleep_time = 0
    /\ connect_failures = 0
    /\ config_file \in BuildConfigFiles
    /\ absorbed = {}
    /\ will = None

\* main() never gets to an await: the signal handlers create tasks that do
\* not run.
BuildNext ==
    \/ MainTurn
    \/ \E config \in BuildConfigFiles : ConfigFileWritten(config)
    \/ \E sig \in Signals : SignalArrives(sig)

BuildSpec == BuildInit /\ [][BuildNext]_vars

-----------------------------------------------------------------------------
(* Claims on the engine and its run-loop *)

\* The last n entries of a sequence
Last(s, n) == SubSeq(s, Len(s) - n + 1, Len(s))

\* C1: the logical history has length min(total_count, history_len), never
\* more than history_len, and once total_count >= history_len the history
\* property is the last history_len recorded values, oldest first.
C1_HistoryIsLastRecorded ==
    \A p \in probes :
        LET n == state[p].total_count
            cap == history_len[p]
        IN  /\ Len(recorded[p]) = n
            /\ Len(history(p)) = Min(n, cap)
            /\ Len(history(p)) <= cap
            /\ n >= cap => history(p) = Last(recorded[p], cap)

\* Capacity 3 after four executions, the second one lost: the oldest value is gone.
C1_Witness ==
    \E p \in probes :
        /\ history_len[p] = 3
        /\ recorded[p] = <<Some(10), None, Some(20), Some(30)>>
        /\ history(p) = <<None, Some(20), Some(30)>>

\* C2: a CancelledError thrown into probe() while it waits in the pacing
\* sleep or in the driver leaves probe() as a CancelledError (the run-loop
\* task ends cancelled) and changes neither the ProbeState nor the history.
C2_CancelRecordsNothing ==
    [][\A p \in Probes :
          (p \in probes /\ p \in must_cancel /\ pc[p] \in {"sleep", "action"}
             /\ pc'[p] # pc[p])
          => /\ pc'[p] = "cancelled"
             /\ state'[p] = state[p]
             /\ _hist'[p] = _hist[p]
             /\ history(p)' = history(p)]_vars

\* A cancellation is about to be thrown into a driver call of an engine that
\* has recorded before.
C2_Witness ==
    \E p \in probes :
        /\ p \in must_cancel
        /\ pc[p] = "action"
        /\ state[p].total_count >= 1
        /\ history(p) # <<>>

\* The Measurement an error of the driver is recorded as
LostOnError == ProbeResult(None, 0, 0)

\* C3: an error of the driver is recorded as a lost sample {None, 0, 0}:
\* total_count and total_lost_count go up by one, the byte totals stay, a
\* None is written to the history, probe() returns, and the run-loop goes on
\* to publish and to the next cycle (it does not end with an error).
C3_DriverErrorIsLostSampleAndLoopGoesOn ==
    [][\A p \in Probes :
          /\ (p \in probes /\ pc[p] = "action" /\ pc'[p] = "send_state"
                /\ state'[p].current = Some(LostOnError))
             => /\ state'[p].total_count = state[p].total_count + 1
                /\ state'[p].total_lost_count = state[p].total_lost_count + 1
                /\ state'[p].bytes_sent = state[p].bytes_sent
                /\ state'[p].bytes_received = state[p].bytes_received
                /\ history(p)'[Len(history(p)')] = None
          /\ (p \in probes /\ pc[p] \in {"send_state", "callback_raised"}
                /\ state[p].current = Some(LostOnError))
             => pc'[p] # "failed"]_vars

\* The channels behind the fill factor gate
StatisticsCodes == {RTT_AVERAGE, AVERAGE_LOSS, JITTER, JITTER_GRADE}

\* C8: in every cycle the average, loss, jitter and jitter-grade channels
\* publish a state message if and only if the fill factor is at least 40
\* when ProbePublisher.send_state runs.
C8_StatisticsPublishedIffFillGate ==
    [][\A p \in Probes :
          (p \in probes /\ p \notin must_cancel /\ pc[p] = "send_state"
             /\ pc'[p] # "send_state")
          => /\ FillGateOpen(p) => StatisticsCodes \subseteq DOMAIN published'[p]
             /\ ~FillGateOpen(p) => StatisticsCodes \cap DOMAIN published'[p] = {}]_vars

\* The cycle of p has handed its state messages to gather.
Publishing(p) == pc[p] \in {"callback", "gather"}

CurrentRtt(p) == Get(state[p].current).rtt

RECURSIVE SumAt(_, _)
SumAt(hist, idx) ==
    IF idx = {} THEN 0
    ELSE LET i == CHOOSE x \in idx : TRUE
         IN  Get(hist[i]) + SumAt(hist, idx \ {i})

\* The positions of hist that hold a value
Measured(hist) == {i \in 1..Len(hist) : hist[i] # None}

\* hist rearranged by the permutation f of its positions
Permuted(hist, f) == [i \in 1..Len(hist) |-> hist[f[i]]]

\* C10: get_average() returns no value iff the history holds no non-null
\* entry; otherwise it is the sum of the non-null entries over their number,
\* and it is the same for the buffer in every order of its entries.
C10_AverageIsMeanOfMeasured ==
    \A p \in probes :
        /\ get_average(p) = None <=> Measured(history(p)) = {}
        /\ get_average(p) # None =>
              RatEq(Get(get_average(p)),
                    <<SumAt(history(p), Measured(history(p))),
                      Cardinality(Measured(history(p)))>>)
        /\ \A f \in Permutations(1..Len(_hist[p])) :
              average_of(Permuted(_hist[p], f)) = get_average(p)

\* A wrapped buffer holding a lost sample and two different values
C10_Witness ==
    \E p \in probes :
        /\ state[p].total_count > history_len[p]
        /\ history(p) = <<Some(10), None, Some(30)>>
        /\ Get(get_average(p)) = <<40, 2>>

-----------------------------------------------------------------------------
(* Claims on the session: publish failures, crashes, groups *)

\* The publish of channel ch of the cycle of p has just failed.
PublishFailed(p, ch) == ch \notin failed[p] /\ ch \in failed'[p]

\* C4: when the state publish of one channel of a cycle fails, the other
\* messages of the cycle stay issued, the run-loop of the probe stays in its
\* cycle (it does not end), and no other probe and nothing of the session
\* is touched.
C4_PublishFailureIsAbsorbed ==
    [][\A p \in Probes :
          (p \in probes /\ \E ch \in failed'[p] : PublishFailed(p, ch))
          => /\ pc'[p] = "gather"
             /\ p \notin must_cancel'
             /\ published'[p] = published[p]
             /\ compound_published' = compound_published
             /\ \A q \in probes \ {p} :
                   /\ pc'[q] = pc[q]
                   /\ published'[q] = published[q]
                   /\ failed'[q] = failed[q]
             /\ svc' = svc
             /\ raised' = raised]_vars

\* The publish of the average of p1 failed; its loss and bytes-sent messages
\* are issued and the cycle of p2 publishes.
C4_Witness ==
    /\ probes = {"p1", "p2"}
    /\ failed["p1"] = {RTT_AVERAGE}
    /\ pc["p1"] = "gather"
    /\ {AVERAGE_LOSS, BYTES_SENT} \subseteq DOMAIN published["p1"]
    /\ pc["p2"] = "gather"
    /\ CONNECTIVITY \in DOMAIN published["p2"]
    /\ svc = "running"

\* C5: once RUNNING the session leaves RUNNING only when a signal has
\* cancelled the main task, and a run-loop task is cancelled only by a signal.
C5_LeavesRunningOnlyOnSignal ==
    [][/\ (svc = "running" /\ svc' # "running") => main_cancel
       /\ \A p \in Probes :
             (p \in probes /\ Live(p) /\ pc'[p] = "cancelled") => p \in must_cancel]_vars

\* The members of group c whose engine holds a current Measurement
Present(c) == {m \in Range(compound[c]) : state[m].current # None}

\* on_update_published of p has just run.
Recomputed(p) ==
    /\ p \in probes
    /\ pc[p] \in {"callback", "callback_raised"}
    /\ pc'[p] \in {"gather", "failed"}

\* C6: every state a group publishes is "connected" iff at least one member
\* holds a current Measurement at that moment, "disconnected" otherwise; it
\* is computed from the engines' state at each publish.
C6_CompoundConnectedIffSomeCurrent ==
    [][\A p \in Probes : \A c \in DOMAIN compound :
          (Recomputed(p) /\ p \in Range(compound[c]))
          => compound_published'[c] =
                Some(IF Present(c) # {} THEN HASS_STATE_CONNECTED
                                        ELSE HASS_STATE_DISCONNECTED)]_vars

\* A group of two published "connected" while one member has not probed yet.
C6_Witness ==
    \E c \in DOMAIN compound :
        /\ Range(compound[c]) = {"p1", "p2"}
        /\ compound_published[c] = Some(HASS_STATE_CONNECTED)
        /\ Present(c) = {"p1"}
        /\ pc["p1"] = "gather"

\* The last completed cycle of every member of c was a lost sample.
AllDown(c) ==
    \A m \in Range(compound[c]) :
        /\ state[m].current # None
        /\ Get(state[m].current).rtt = None

\* C7: a group publishes "disconnected" when the last cycle of every member
\* was a lost sample, and "connected" only when some member is not down.
C7_CompoundDisconnectedWhenAllDown ==
    [][\A p \in Probes : \A c \in DOMAIN compound :
          (Recomputed(p) /\ p \in Range(compound[c]))
          => compound_published'[c] =
                Some(IF AllDown(c) THEN HASS_STATE_DISCONNECTED
                                   ELSE HASS_STATE_CONNECTED)]_vars

-----------------------------------------------------------------------------
(* Claims on the statistics of the engine *)

\* The recorded values still in the history, oldest first
Kept(p) == Last(recorded[p], Min(Len(recorded[p]), history_len[p]))

\* The non-null values of a sequence of optional values, in its order
RECURSIVE Values(_)
Values(s) ==
    IF s = <<>> THEN <<>>
    ELSE (IF Head(s) = None THEN <<>> ELSE <<Head(s)[1]>>) \o Values(Tail(s))

\* |x[2] - x[1]| + |x[3] - x[2]| + ...
RECURSIVE SumAbsDiffs(_)
SumAbsDiffs(x) ==
    IF Len(x) < 2 THEN 0
    ELSE (IF x[2] >= x[1] THEN x[2] - x[1] ELSE x[1] - x[2]) + SumAbsDiffs(Tail(x))

\* C11: get_jitter() returns no value when fewer than two of the values
\* still in the history are non-null; otherwise it is the mean of
\* |x[i+1] - x[i]| over the consecutive pairs of the non-null values taken
\* oldest to newest, lost samples between them skipped.
C11_JitterIsMeanAbsDiffOfChronological ==
    \A p \in probes :
        LET x == Values(Kept(p))
        IN  /\ get_jitter(p) = None <=> Len(x) < 2
            /\ Len(x) >= 2 =>
                  RatEq(Get(get_jitter(p)), <<SumAbsDiffs(x), Len(x) - 1>>)

\* A wrapped buffer whose physical order is not the chronological one, with a
\* lost sample between two values: 20, lost, 0, 30 in a history of 3.
C11_Witness ==
    \E p \in probes :
        /\ history_len[p] = 3
        /\ recorded[p] = <<Some(20), None, Some(0), Some(30)>>
        /\ _hist[p] = <<Some(30), None, Some(0)>>
        /\ get_jitter(p) = Some(<<30, 1>>)

\* C12: get_loss_percent() returns no value when the history is empty, and
\* otherwise 100 * (number of null entries) / (length of the history), a
\* number from 0 to 100.
C12_LossPercentOfHistory ==
    \A p \in probes :
        LET kept == Kept(p)
            nulls == Cardinality({i \in 1..Len(kept) : kept[i] = None})
        IN  /\ get_loss_percent(p) = None <=> kept = <<>>
            /\ kept # <<>> =>
                  LET loss == Get(get_loss_percent(p))
                  IN  /\ RatEq(loss, <<100 * nulls, Len(kept)>>)
                      /\ loss[2] > 0
                      /\ 0 <= loss[1]
                      /\ loss[1] <= 100 * loss[2]

\* A lost sample has left a history of 3 that still holds another one.
C12_Witness ==
    \E p \in probes :
        /\ history_len[p] = 3
        /\ recorded[p] = <<None, Some(10), None, Some(30)>>
        /\ state[p].total_lost_count = 2
        /\ get_loss_percent(p) = Some(<<100, 3>>)

-----------------------------------------------------------------------------
(* Claims on main(), the connect and the signals *)

Connecting == {"connect", "connect_sleep"}

\* C13: _connect_mqtt returns to run() only from an attempt that succeeded;
\* an attempt that fails is followed by the backoff wait, the wait by the
\* next attempt, whatever the number of failures so far; no error of the
\* connect reaches run(), and only a cancellation ends the loop otherwise.
C13_ConnectReturnsOnlyOnSuccess ==
    [][(svc \in Connecting /\ svc' # svc)
          => \/ /\ svc = "connect"
                /\ svc' = "discovery"
                /\ ~main_cancel
                /\ raised' = "none"
             \/ /\ svc = "connect"
                /\ svc' = "connect_sleep"
                /\ ~main_cancel
                /\ sleep_on_error' > 0
                /\ raised' = "none"
             \/ /\ svc = "connect_sleep"
                /\ svc' = "connect"
                /\ ~main_cancel
             \/ /\ main_cancel
                /\ svc' \in {"reload", "stopped"}
                /\ raised' = "none"]_vars

\* A second attempt is under way, after a failed one and its backoff wait.
C13_Witness ==
    /\ svc = "connect"
    /\ sleep_on_error = 2 * MaxConnectFailures
    /\ ~main_cancel
    /\ ~shutdown_event

\* C14: once the stop flag is set it stays set, and from then on main()
\* loads no configuration, no connect attempt begins and no run-loop task
\* is created or started, whatever signals come before or after.
C14_StopFlagIsPersistent ==
    [][shutdown_event
          => /\ shutdown_event'
             /\ svc' # "reload"
             /\ svc' = "connect" => svc = "connect"
             /\ probes' = probes
             /\ \A p \in probes :
                   pc'[p] \in {"created", "config"} => pc'[p] = pc[p]]_vars

\* SIGTERM has been handled and the session is closing; a SIGHUP that came
\* after it waits for its shutdown task to run.
C14_Witness ==
    /\ shutdown_event
    /\ svc = "closing"
    /\ ~main_cancel
    /\ pending # <<>>
    /\ Head(pending) = "SIGHUP"

\* A SIGTERM or SIGINT has reached the process and its shutdown task has
\* not run.
TerminatePending == \E i \in DOMAIN pending : pending[i] # "SIGHUP"

\* C15: under fair scheduling, a terminate signal that reaches the process,
\* in whatever state main() and the session are, is followed by the end of
\* the loop of main().
C15_TerminateLeadsToStopped == TerminatePending ~> (svc \in {"stopped", "crashed"})

\* shutdown(SIGHUP) has run on a RUNNING session: the main task and the
\* tasks of the session are cancelled and the stop flag is clear.
ReloadRequested == svc = "running" /\ main_cancel /\ ~shutdown_event

\* A session that no signal has touched is RUNNING with a run-loop task for
\* each of its probes.
FreshSessionRuns ==
    /\ svc = "running"
    /\ ~main_cancel
    /\ \A p \in probes : pc[p] # "none"

\* C16: a SIGHUP handled while RUNNING leaves the stop flag clear, and under
\* fair scheduling it is followed by a fresh session that is RUNNING with one
\* run-loop per probe, unless the configuration read is invalid or a
\* terminate signal arrives (either sets the stop flag or is pending).
C16_ReloadStartsFreshSession ==
    ReloadRequested ~> (FreshSessionRuns \/ shutdown_event \/ TerminatePending)

HasDuplicates(names) == Cardinality(Range(names)) < Len(names)

\* A configuration with a probe name used twice within a kind, a group name
\* used twice, or a group with a member that is no configured probe
InvalidConfiguration(config) ==
    \/ HasDuplicates(config.dns)
    \/ HasDuplicates(config.ping)
    \/ HasDuplicates([i \in DOMAIN config.all_down |-> config.all_down[i].name])
    \/ \E g \in Range(config.all_down) :
          \E m \in Range(g.probes) :
              m.name \notin (IF m.type = "dns" THEN Range(config.dns)
                                              ELSE Range(config.ping))

\* C17: when main() loads an invalid configuration, at the first start or
\* after a reload, it sets the stop flag and its loop ends; no session is
\* built for the configuration: no connect, no publish, no run-loop task.
C17_InvalidConfigurationStops ==
    [][(svc = "reload" /\ InvalidConfiguration(config_file) /\ svc' # svc)
          => /\ svc' = "stopped"
             /\ shutdown_event'
             /\ online' = "none"
             /\ UNCHANGED <<config_vars, engine_vars, loop_vars>>]_vars

\* After a reload (a session with probe p1 has run and no terminate signal
\* ended it) the file names a group member that is not configured: main()
\* has stopped.
C17_Witness ==
    /\ svc = "stopped"
    /\ shutdown_event
    /\ absorbed = {}
    /\ probes = {"p1"}
    /\ config_file = MissingMemberFile

-----------------------------------------------------------------------------
(* Claims on the start and the end of a session *)

\* C18: a CancelledError is caught and turned into a normal return by
\* run() only: the run-loop, the aggregator callback, the engine, the
\* publishers and the connect loop let it through to their awaiter.
C18_CancellationAbsorbedOnlyInRun == absorbed \subseteq {"run"}

\* The descriptors of the channels of p are published: its run-loop is past
\* the await of publisher.send_configuration().
ProbeConfigured(p) ==
    \/ pc[p] \in {"sleep", "action", "send_state", "callback", "callback_raised",
                  "gather"}
    \/ state[p].total_count > 0

\* The run-loop of p has called the driver for the first time.
FirstActionBegun(p) == pc[p] = "action" \/ state[p].total_count > 0

\* C19: in a RUNNING session, when the "connected" liveness value is
\* published or a run-loop has begun its first probe action, the descriptors
\* of the channels of every probe are published (those of the groups are
\* published by tasks of _run_probes that nothing awaits).
C19_DescriptorsBeforeLivenessAndProbing ==
    (/\ svc = "running"
     /\ \/ online = HASS_STATE_CONNECTED
        \/ \E p \in probes : FirstActionBegun(p))
        => \A p \in probes : ProbeConfigured(p)

\* run() begins its final "disconnected" liveness publish.
GoodbyeAttempted == svc = "running" /\ svc' = "goodbye"

\* C20: after a signal in RUNNING, the final "disconnected" publish is
\* attempted only when every run-loop task has ended; whatever its outcome
\* the next step of run() is the close of the session; and from the attempt
\* on no probe and no group issues a state message.
C20_TeardownOrder ==
    [][/\ GoodbyeAttempted => \A p \in probes : ~Live(p)
       /\ (svc = "goodbye" /\ svc' # svc) => svc' = "closing"
       /\ (svc = "goodbye" \/ (svc = "closing" /\ raised # "Exception"))
             => /\ published' = published
                /\ compound_published' = compound_published]_vars

-----------------------------------------------------------------------------
(* Claims on the connection to the broker *)

\* C21: in every session that attempts to connect, the last-will message
\* (the "disconnected" liveness value, retained, on the state topic of the
\* liveness sensor) is set on the client before the first attempt: no
\* attempt, first or later, is made on a client without it.
C21_LastWillBeforeConnect ==
    svc \in Connecting
        => /\ will # None
           /\ Get(will).topic = state_topic(APPNAME)
           /\ Get(will).payload = HASS_STATE_DISCONNECTED
           /\ Get(will).retain

\* The first attempt of a session is under way.
C21_Witness ==
    /\ svc = "connect"
    /\ sleep_on_error = 0
    /\ ~main_cancel
    /\ probes = {"p1"}
    /\ will # None

-----------------------------------------------------------------------------
(* Claims on the counters and the order of a cycle *)

\* probe() of p has just run to its end: the run-loop goes on to publish.
Executed(p) == pc[p] = "action" /\ pc'[p] = "send_state"

\* C22: wherever the tasks are suspended, total_lost_count <= total_count;
\* total_count, total_lost_count and the two byte totals never decrease; an
\* execution that completes adds exactly 1 to total_count, and 1 to
\* total_lost_count when the round-trip time it recorded is None and 0
\* otherwise; nothing else changes the two counts.
C22_CountersConsistentAndMonotonic ==
    /\ [](\A p \in probes : state[p].total_lost_count <= state[p].total_count)
    /\ [][\A p \in probes :
             /\ state'[p].total_count >= state[p].total_count
             /\ state'[p].total_lost_count >= state[p].total_lost_count
             /\ state'[p].bytes_sent >= state[p].bytes_sent
             /\ state'[p].bytes_received >= state[p].bytes_received
             /\ Executed(p) =>
                   /\ state'[p].total_count = state[p].total_count + 1
                   /\ state'[p].total_lost_count = state[p].total_lost_count
                         + (IF Get(state'[p].current).rtt = None THEN 1 ELSE 0)
             /\ ~Executed(p) =>
                   /\ state'[p].total_count = state[p].total_count
                   /\ state'[p].total_lost_count = state[p].total_lost_count]_vars

\* Three executions, two of them lost, one by an error of the driver (it
\* sent no byte), and the run-loop is publishing.
C22_Witness ==
    \E p \in probes :
        /\ state[p].total_count = 3
        /\ state[p].total_lost_count = 2
        /\ state[p].bytes_sent = 2 * packet_size
        /\ state[p].bytes_received = packet_size
        /\ pc[p] = "gather"

\* The state messages of the channels of p that every cycle issues
EveryCycleCodes == {CONNECTIVITY, BYTES_SENT, BYTES_RECEIVED}

\* C23: within a cycle the state messages are derived and issued after the
\* action and its recording (in the step that follows probe(), from the
\* engine as the recording left it); the groups of the probe are republished
\* after the messages of its own channels are issued; and the next action
\* starts only when the gather of the publishes of the cycle is done.
C23_OrderWithinCycle ==
    [][\A p \in probes :
          /\ published'[p] # published[p]
                => /\ pc[p] = "send_state"
                   /\ state[p].total_count = Len(recorded[p])
                   /\ state[p].current = Some(ProbeResult(
                          recorded[p][Len(recorded[p])],
                          Get(state[p].current).bytes_sent,
                          Get(state[p].current).bytes_received))
                   /\ UNCHANGED engine_vars
          /\ Recomputed(p) => EveryCycleCodes \subseteq DOMAIN published[p]
          /\ (pc'[p] \in Pacing /\ pc[p] \notin Pacing)
                => pc[p] \in {"config", "gather"}]_vars

\* The groups whose member list holds p
GroupsOf(p) == {c \in DOMAIN compound : p \in Range(compound[c])}

\* C24: the callback of a cycle of p republishes exactly the groups whose
\* member list holds p, each of them once; a cycle of a member cannot end
\* without it; a step of a probe that is in no group republishes nothing,
\* and no step of a probe republishes a group it is not a member of.
C24_ExactlyMemberGroupsRepublished ==
    [][\A p \in probes :
          /\ Recomputed(p) => publish_tasks'[p] = [c \in GroupsOf(p) |-> 1]
          /\ (pc[p] = "gather" /\ pc'[p] \in Pacing)
                => DOMAIN publish_tasks[p] = GroupsOf(p)
          /\ pc'[p] # pc[p]
                => /\ DOMAIN publish_tasks'[p] \subseteq GroupsOf(p)
                   /\ \A c \in DOMAIN compound \ GroupsOf(p) :
                         compound_published'[c] = compound_published[c]]_vars

\* The run-loop task of p has ended by a cancellation.
Cancelled(p) == pc[p] \in {"cancelled", "dropped"}

\* C25: the step in which a cancellation reaches the run-loop task of p ends
\* the task and records and publishes nothing; an ended task stays ended for
\* the rest of the session: no action, no recording, no publish, no restart.
C25_CancelledIsTerminal ==
    [][\A p \in probes :
          /\ (p \in must_cancel /\ p \notin must_cancel')
                => /\ Cancelled(p)'
                   /\ state'[p] = state[p]
                   /\ _hist'[p] = _hist[p]
                   /\ published'[p] = published[p]
                   /\ compound_published' = compound_published
          /\ Cancelled(p)
                => /\ pc'[p] = pc[p]
                   /\ p \notin must_cancel'
                   /\ state'[p] = state[p]
                   /\ _hist'[p] = _hist[p]
                   /\ published'[p] = published[p]
                   /\ publish_tasks'[p] = publish_tasks[p]]_vars

\* The task of p1 was cancelled after an execution, in the gather of its
\* publishes; the cancellation has not reached the task of p2 yet.
C25_Witness ==
    /\ probes = {"p1", "p2"}
    /\ pc["p1"] = "cancelled"
    /\ state["p1"].total_count = 1
    /\ published["p1"] # <<>>
    /\ "p2" \in must_cancel
    /\ pc["p2"] = "action"

-----------------------------------------------------------------------------
(* Claims on the retry loop of the connect *)

\* C26: the first attempt of _connect_mqtt is made without a wait, and the
\* wait before the attempt that follows its k-th consecutive failure is
\* min(2 * k, 10) seconds: 2 more per failure, never less than the wait
\* before, never more than 10.
C26_BackoffIsLinearAndCapped ==
    /\ []((svc = "connect" /\ connect_failures = 0) => sleep_time = 0)
    /\ [](svc = "connect_sleep"
             => /\ connect_failures >= 1
                /\ sleep_time = Min(2 * connect_failures, 10))
    /\ [](sleep_time <= 10)
    /\ [][(svc \in Connecting /\ svc' \in Connecting)
             => sleep_time' >= sleep_time]_vars

\* The sixth attempt in a row has failed: the wait stays at 10 seconds.
C26_Witness ==
    /\ svc = "connect_sleep"
    /\ connect_failures = 6
    /\ sleep_on_error = 12
    /\ sleep_time = 10

-----------------------------------------------------------------------------
(* Claims on the jitter grade *)

\* C27: in every cycle in which the fill-factor gate is open, whatever the
\* history (one whose non-null round-trip times are all 0 included), the
\* jitter-grade channel publishes 100 * jitter / average rounded to the
\* configured precision when jitter and average are both defined and the
\* unavailable marker otherwise, and the bytes-sent and bytes-received
\* channels of the cycle are published as well.
C27_JitterGradeAndBytesPublished ==
    [][\A p \in Probes :
          (p \in probes /\ p \notin must_cancel /\ pc[p] = "send_state"
             /\ pc'[p] # "send_state" /\ FillGateOpen(p))
          => LET jitter == get_jitter(p)
                 average == get_average(p)
             IN  /\ {JITTER_GRADE, BYTES_SENT, BYTES_RECEIVED}
                       \subseteq DOMAIN published'[p]
                 /\ (jitter = None \/ average = None)
                       => published'[p][JITTER_GRADE] = Text(HASS_STATE_UNAVAILABLE)
                 /\ (jitter # None /\ average # None /\ Get(average)[1] # 0)
                       => published'[p][JITTER_GRADE] =
                            to_hass_numeric(
                                Some(<<100 * Get(jitter)[1] * Get(average)[2],
                                       Get(jitter)[2] * Get(average)[1]>>),
                                publish_precision[p])]_vars

-----------------------------------------------------------------------------
(* Claims on a configuration without probes *)

\* C28: with a configuration of zero probes the run of the service is a
\* no-op: no last will is registered, no connect is attempted and nothing
\* is published; and the process then exits: the loop of main() ends
\* instead of starting further sessions.
C28_ZeroProbesIsNoOpAndExits ==
    /\ [](probes = {}
            => /\ will = None
               /\ svc \in {"reload", "stopped", "crashed"}
               /\ online = "none"
               /\ connect_failures = 0)
    /\ Spinning ~> (svc = "stopped")

-----------------------------------------------------------------------------
(* Claims on the ownership of an engine *)

\* main() builds a session: ProbeService.__init__ makes new engines.
SessionBuilt == svc = "reload" /\ svc' # "reload"

-----------------------------------------------------------------------------
(* Claims on the construction of the engines *)

\* The probes of a configuration
Configured(config) == Range(config.dns) \cup Range(config.ping)

\* main() has a configuration to build a session of: the file is valid, it
\* names a probe and each of its groups has a member.
Buildable(config) ==
    /\ ~validate_config(config)
    /\ Configured(config) # {}
    /\ \A cfg \in Range(config.all_down) : composite_probes(config, cfg) # <<>>

\* C30: at the start of every session one engine is successfully built for
\* every configured dns and ping probe, with total_count, total_lost_count
\* and both byte totals 0, no current Measurement and an empty history,
\* whatever the engines of the session before held.
C30_EnginesBuiltFresh ==
    [][(svc = "reload" /\ Buildable(config_file) /\ svc' # "reload")
         => /\ svc' = "connect"
            /\ probes' = Configured(config_file)
            /\ \A p \in probes' : state'[p] = ProbeState /\ _hist'[p] = <<>>]_vars
====
